---- MODULE Spec2Model ----
(***************************************************************************)
(* TicketEngine: first-come-first-served ticket allocation, one ticket per *)
(* address per event (packages/hardhat/contracts/TicketEngine.sol).        *)
(*                                                                         *)
(* Every external call is one EVM transaction: it runs to completion or    *)
(* reverts as a whole, and transactions are executed one after another, so *)
(* each call is one atomic action.  grabTicket makes no external call      *)
(* (_mint, unlike _safeMint, calls no receiver hook), so the nonReentrant  *)
(* guard is never contended.  A uint256 is a natural number here: the      *)
(* counters move by one per call and the bounds below keep them far from   *)
(* 2^256.  address(0) is 0 and the callers are 1..NumUsers.                *)
(*                                                                         *)
(* Of the inherited ERC721 storage the model keeps _owners, which _mint    *)
(* writes and checks and the inherited transferFrom rewrites; approvals    *)
(* are never granted, so only a token's owner is authorized to move it.    *)
(* transferFrom writes nothing but _owners, which no function of the       *)
(* engine reads back except _mint for a fresh id: Spec is the engine's own *)
(* functions, SpecERC721 adds the inherited transfer.                      *)
(* history and lastCall record what callers saw: the calls that returned,  *)
(* in execution order, and the outcome of the last call, reverted or not.  *)
(***************************************************************************)
EXTENDS Integers, Sequences, FiniteSets

\* ---------------------------------------------------------------- bounds
NumUsers == 3
MaxEvents == 2
MaxTickets == 2
MaxTime == 1
MaxCalls == 3
MaxTransferToken == 1
MaxLimit == 3
NumClients == 2
NumWallets == 2
MaxWrites == 3
NumHashes == 2
MaxHistoryCalls == 3

Users == 1..NumUsers
Organizers == {1}
Titles == {"", "Gala"}
EventIds == 0..MaxEvents
TicketIds == 0..(MaxCalls + 1)
Times == 0..MaxTime
\* the token ids and the recipients named in transferFrom calls
TransferTokens == 0..MaxTransferToken
Recipients == {0, NumUsers}
\* the browsers showing the event page, and the wallets that grab
Clients == 1..NumClients
Wallets == 1..NumWallets
Hashes == 1..NumHashes

\* enum AttemptResult { Success, AlreadyOwnsTicket, SoldOut, NotStarted }
AttemptResult == {"Success", "AlreadyOwnsTicket", "SoldOut", "NotStarted"}

VARIABLES
    blockTimestamp,      \* block.timestamp of the transaction being executed
    nextEventId,
    nextTicketId,
    events,              \* eventId => Event
    tickets,             \* ticketId => Ticket
    hasTicketForEvent,   \* eventId => participant => bool
    userTicketForEvent,  \* eventId => participant => ticketId
    eventTickets,        \* eventId => ticketIds[]
    userEvents,          \* user => eventIds[]
    userAttempts,        \* user => Attempt[]
    allEventIds,         \* uint256[]
    owners,              \* ERC721 _owners: tokenId => address
    history,             \* the grabTicket calls that returned, in execution order
    lastCall,            \* the last external call and how it ended
    probe,               \* one application of grabTicket's checks to given inputs
    presence,            \* the grabbing_participants table and its clients
    txHistory,           \* useTransactionHistory: its state and localStorage
    createPage           \* CreateEventPage: its state and its transaction

storage == <<nextEventId, nextTicketId, events, tickets, hasTicketForEvent,
             userTicketForEvent, eventTickets, userEvents, userAttempts,
             allEventIds, owners>>

vars == <<blockTimestamp, nextEventId, nextTicketId, events, tickets,
          hasTicketForEvent, userTicketForEvent, eventTickets, userEvents,
          userAttempts, allEventIds, owners, history, lastCall, probe,
          presence, txHistory, createPage>>

\* ------------------------------------------------------- storage defaults
\* A Solidity mapping reads as the zero value at every key never written.
NoEvent == [id |-> 0, title |-> "", startTime |-> 0, totalTickets |-> 0,
            remainingTickets |-> 0, organizer |-> 0, exists |-> FALSE]

NoTicket == [id |-> 0, eventId |-> 0, owner |-> 0, acquiredAt |-> 0]

NoProbe == [timestamp |-> 0, startTime |-> 0, hasTicket |-> FALSE,
            remainingTickets |-> 0, result |-> "unused",
            status |-> "unused", viewStatus |-> "unused"]

\* What the caller of the last transaction saw: the function, msg.sender, the
\* event id passed (grabTicket) or returned (createEvent), whether it reverted
\* and with which message, grabTicket's (success, result, ticketId), and the
\* events the transaction emitted.
NoCall == [fn |-> "none", sender |-> 0, eventId |-> 0,
           reverted |-> FALSE, reason |-> "", success |-> FALSE,
           result |-> "", ticketId |-> 0, emitted |-> <<>>]

\* No row in grabbing_participants, no client subscribed or fetching.
NoRow == [status |-> "none", started_at |-> 0]

NoPresence ==
    [table |-> [w \in Wallets |-> NoRow],
     writes |-> 0,
     subscribed |-> [c \in Clients |-> FALSE],
     missed |-> [c \in Clients |-> FALSE],
     channel |-> [c \in Clients |-> <<>>],
     fetch |-> [c \in Clients |-> [phase |-> "unsent", data |-> <<>>]],
     grabbingList |-> [c \in Clients |-> <<>>]]

\* A property a TransactionRecord does not have reads as undefined.
Undefined == 0

\* localStorage holds no item under STORAGE_KEY; the hook has not loaded and
\* nothing is queued for its state.
NoItem == [present |-> FALSE, text |-> <<>>]

NoTxHistory ==
    [transactions |-> <<>>,
     isLoaded |-> FALSE,
     localStorage |-> NoItem,
     pending |-> <<>>,
     calls |-> 0]

\* The create page before anything was read or submitted: nextEventId is the
\* data of the contract read, createdEventId starts as null.
NoCreatePage ==
    [phase |-> "idle",
     nextEventId |-> Undefined,
     submitted |-> Undefined,
     assigned |-> Undefined,
     createdEventId |-> Undefined]

Contract ==
    /\ blockTimestamp = 0
    /\ nextEventId = 1
    /\ nextTicketId = 1
    /\ events = [e \in EventIds |-> NoEvent]
    /\ tickets = [t \in TicketIds |-> NoTicket]
    /\ hasTicketForEvent = [e \in EventIds |-> [u \in Users |-> FALSE]]
    /\ userTicketForEvent = [e \in EventIds |-> [u \in Users |-> 0]]
    /\ eventTickets = [e \in EventIds |-> <<>>]
    /\ userEvents = [u \in Users |-> <<>>]
    /\ userAttempts = [u \in Users |-> <<>>]
    /\ allEventIds = <<>>
    /\ owners = [t \in TicketIds |-> 0]
    /\ history = <<>>
    /\ lastCall = NoCall

Init ==
    /\ Contract
    /\ probe = NoProbe
    /\ presence = NoPresence
    /\ txHistory = NoTxHistory
    /\ createPage = NoCreatePage

\* ---------------------------------------------------------------- helpers
\* A transaction that reverts undoes every write and emits nothing; only the
\* caller learns of it.
Revert(call, why) ==
    /\ lastCall' = [call EXCEPT !.reverted = TRUE, !.reason = why]
    /\ UNCHANGED <<storage, history>>

\* ------------------------------------------------------------ createEvent
\* mutant: a start time equal to block.timestamp is accepted
StartInFuture_OrNow(_startTime) == _startTime >= blockTimestamp

\* require(_startTime > block.timestamp, "Start time must be in future")
StartInFuture(_startTime) == _startTime > blockTimestamp

\* mutant: the counter is read and not incremented
NextEventIdAfter_Same(eventId) == eventId

\* eventId = nextEventId++ leaves the counter one higher
NextEventIdAfter(eventId) == eventId + 1

\* mutant: remainingTickets is left at its zero value
NewEvent_NothingRemaining(eventId, _title, _startTime, _totalTickets, sender) ==
    [id |-> eventId, title |-> _title, startTime |-> _startTime,
     totalTickets |-> _totalTickets, remainingTickets |-> 0,
     organizer |-> sender, exists |-> TRUE]

NewEvent(eventId, _title, _startTime, _totalTickets, sender) ==
    [id |-> eventId, title |-> _title, startTime |-> _startTime,
     totalTickets |-> _totalTickets, remainingTickets |-> _totalTickets,
     organizer |-> sender, exists |-> TRUE]

createEvent(sender, _title, _startTime, _totalTickets) ==
    LET call == [NoCall EXCEPT !.fn = "createEvent", !.sender = sender]
        eventId == nextEventId
        created == [name |-> "EventCreated", eventId |-> eventId,
                    title |-> _title, startTime |-> _startTime,
                    totalTickets |-> _totalTickets, organizer |-> sender]
    IN  IF _title = "" THEN Revert(call, "Title cannot be empty")
        ELSE IF ~(_totalTickets > 0) THEN Revert(call, "Must have at least 1 ticket")
        ELSE IF ~StartInFuture(_startTime) THEN Revert(call, "Start time must be in future")
        ELSE /\ nextEventId <= MaxEvents
             /\ nextEventId' = NextEventIdAfter(eventId)
             /\ events' = [events EXCEPT ![eventId] =
                              NewEvent(eventId, _title, _startTime,
                                       _totalTickets, sender)]
             /\ allEventIds' = Append(allEventIds, eventId)
             /\ lastCall' = [call EXCEPT !.eventId = eventId,
                                         !.emitted = <<created>>]
             /\ UNCHANGED <<nextTicketId, tickets, hasTicketForEvent,
                            userTicketForEvent, eventTickets, userEvents,
                            userAttempts, owners, history>>

\* ------------------------------------------------------------- grabTicket
\* mutant: the existence check is missing
EventExists_Missing(evt) == TRUE

\* require(evt.exists, "Event does not exist")
EventExists(evt) == evt.exists

\* mutant: the holder check is missing
AttemptOutcome_NoHolderCheck(timestamp, evt, hasTicket) ==
    IF timestamp < evt.startTime THEN "NotStarted"
    ELSE IF evt.remainingTickets = 0 THEN "SoldOut"
    ELSE "Success"

\* mutant: the exhaustion check is missing
AttemptOutcome_NoSoldOutCheck(timestamp, evt, hasTicket) ==
    IF timestamp < evt.startTime THEN "NotStarted"
    ELSE IF hasTicket THEN "AlreadyOwnsTicket"
    ELSE "Success"

\* mutant: sold out is reported with one ticket left
AttemptOutcome_OffByOne(timestamp, evt, hasTicket) ==
    IF timestamp < evt.startTime THEN "NotStarted"
    ELSE IF hasTicket THEN "AlreadyOwnsTicket"
    ELSE IF evt.remainingTickets <= 1 THEN "SoldOut"
    ELSE "Success"

\* mutant: the event counts as not started at its start time
AttemptOutcome_StartExclusive(timestamp, evt, hasTicket) ==
    IF timestamp <= evt.startTime THEN "NotStarted"
    ELSE IF hasTicket THEN "AlreadyOwnsTicket"
    ELSE IF evt.remainingTickets = 0 THEN "SoldOut"
    ELSE "Success"

\* mutant: the holder check comes before the timing check
AttemptOutcome_HolderFirst(timestamp, evt, hasTicket) ==
    IF hasTicket THEN "AlreadyOwnsTicket"
    ELSE IF timestamp < evt.startTime THEN "NotStarted"
    ELSE IF evt.remainingTickets = 0 THEN "SoldOut"
    ELSE "Success"

\* mutant: the exhaustion check comes before the holder check
AttemptOutcome_SoldOutFirst(timestamp, evt, hasTicket) ==
    IF timestamp < evt.startTime THEN "NotStarted"
    ELSE IF evt.remainingTickets = 0 THEN "SoldOut"
    ELSE IF hasTicket THEN "AlreadyOwnsTicket"
    ELSE "Success"

\* mutant: the timing check is missing
AttemptOutcome_NoStartCheck(timestamp, evt, hasTicket) ==
    IF hasTicket THEN "AlreadyOwnsTicket"
    ELSE IF evt.remainingTickets = 0 THEN "SoldOut"
    ELSE "Success"

\* The checks of grabTicket on an existing event, in the order of the code.
AttemptOutcome(timestamp, evt, hasTicket) ==
    IF timestamp < evt.startTime THEN "NotStarted"
    ELSE IF hasTicket THEN "AlreadyOwnsTicket"
    ELSE IF evt.remainingTickets = 0 THEN "SoldOut"
    ELSE "Success"

\* mutant: the counter is read and not incremented
NextTicketIdAfter_Same(ticketId) == ticketId

\* mutant: the counter skips an id
NextTicketIdAfter_Skip(ticketId) == ticketId + 2

\* ticketId = nextTicketId++ leaves the counter one higher
NextTicketIdAfter(ticketId) == ticketId + 1

\* mutant: the decrement is missing
RemainingAfter_NoDecrement(evt) == evt.remainingTickets

\* mutant: the count goes up
RemainingAfter_Increment(evt) == evt.remainingTickets + 1

\* evt.remainingTickets--
RemainingAfter(evt) == evt.remainingTickets - 1

\* mutant: the ticket id is stored where the event id belongs
NewTicket_IdForEvent(ticketId, _eventId, sender) ==
    [id |-> ticketId, eventId |-> ticketId, owner |-> sender,
     acquiredAt |-> blockTimestamp]

NewTicket(ticketId, _eventId, sender) ==
    [id |-> ticketId, eventId |-> _eventId, owner |-> sender,
     acquiredAt |-> blockTimestamp]

\* mutant: the event carries the count from before the decrement
TicketGrabbed_BeforeDecrement(_eventId, ticketId, sender, remainingTickets) ==
    [name |-> "TicketGrabbed", eventId |-> _eventId, ticketId |-> ticketId,
     participant |-> sender, remainingTickets |-> remainingTickets + 1]

\* emit TicketGrabbed(_eventId, ticketId, msg.sender, evt.remainingTickets)
TicketGrabbed(_eventId, ticketId, sender, remainingTickets) ==
    [name |-> "TicketGrabbed", eventId |-> _eventId, ticketId |-> ticketId,
     participant |-> sender, remainingTickets |-> remainingTickets]

\* _recordAttempt pushes one Attempt on msg.sender's log and emits
\* AttemptRecorded.
AttemptOf(sender, _eventId, _result) ==
    [eventId |-> _eventId, participant |-> sender,
     timestamp |-> blockTimestamp, result |-> _result]

\* mutant: the notification always says Success
AttemptRecorded_AlwaysSuccess(sender, _eventId, _result) ==
    [name |-> "AttemptRecorded", eventId |-> _eventId, participant |-> sender,
     result |-> "Success", timestamp |-> blockTimestamp]

AttemptRecorded(sender, _eventId, _result) ==
    [name |-> "AttemptRecorded", eventId |-> _eventId, participant |-> sender,
     result |-> _result, timestamp |-> blockTimestamp]

\* mutant: the newest attempt is put first
_recordAttempt_Prepend(sender, _eventId, _result) ==
    userAttempts' = [userAttempts EXCEPT ![sender] =
                        <<AttemptOf(sender, _eventId, _result)>> \o @]

\* mutant: only successful attempts are logged
_recordAttempt_SuccessOnly(sender, _eventId, _result) ==
    userAttempts' = [userAttempts EXCEPT ![sender] =
                        IF _result = "Success"
                        THEN Append(@, AttemptOf(sender, _eventId, _result))
                        ELSE @]

_recordAttempt(sender, _eventId, _result) ==
    userAttempts' = [userAttempts EXCEPT ![sender] =
                        Append(@, AttemptOf(sender, _eventId, _result))]

\* mutant: a refused attempt still takes a ticket off the event
ReturnFailure_TakesTicket(sender, _eventId, _result) ==
    /\ _recordAttempt(sender, _eventId, _result)
    /\ events' = [events EXCEPT ![_eventId].remainingTickets =
                      IF @ > 0 THEN @ - 1 ELSE @]
    /\ UNCHANGED <<nextEventId, nextTicketId, tickets,
                   hasTicketForEvent, userTicketForEvent,
                   eventTickets, userEvents, allEventIds, owners>>

\* The three early returns: the attempt is recorded, nothing else is written.
ReturnFailure(sender, _eventId, _result) ==
    /\ _recordAttempt(sender, _eventId, _result)
    /\ UNCHANGED <<nextEventId, nextTicketId, events, tickets,
                   hasTicketForEvent, userTicketForEvent,
                   eventTickets, userEvents, allEventIds, owners>>

\* mutant: the record is stored under the event id
StoreTicket_ByEvent(ticketId, _eventId, sender) ==
    [tickets EXCEPT ![_eventId] = NewTicket(ticketId, _eventId, sender)]

\* tickets[ticketId] = Ticket({...})
StoreTicket(ticketId, _eventId, sender) ==
    [tickets EXCEPT ![ticketId] = NewTicket(ticketId, _eventId, sender)]

\* mutant: the holder flag is set for every event at once
MarkHolder_EveryEvent(_eventId, sender) ==
    [e \in EventIds |-> [hasTicketForEvent[e] EXCEPT ![sender] = TRUE]]

\* mutant: the holder flag is not set
MarkHolder_Nobody(_eventId, sender) == hasTicketForEvent

\* hasTicketForEvent[_eventId][msg.sender] = true
MarkHolder(_eventId, sender) ==
    [hasTicketForEvent EXCEPT ![_eventId][sender] = TRUE]

\* What a grabTicket call that returned gave its caller, and when.
Returned(sender, _eventId, success, result, ticketId, emitted) ==
    [sender |-> sender, eventId |-> _eventId, timestamp |-> blockTimestamp,
     success |-> success, result |-> result, ticketId |-> ticketId,
     emitted |-> emitted]

\* mutant: EventSoldOut is announced with one ticket still left
LastTicketGone_OneEarly(remainingTickets) == remainingTickets <= 1

\* if (evt.remainingTickets == 0) emit EventSoldOut(_eventId)
LastTicketGone(remainingTickets) == remainingTickets = 0

grabTicket(sender, _eventId) ==
    LET call == [NoCall EXCEPT !.fn = "grabTicket", !.sender = sender,
                               !.eventId = _eventId]
        evt == events[_eventId]
        result == AttemptOutcome(blockTimestamp, evt,
                                 hasTicketForEvent[_eventId][sender])
        ticketId == nextTicketId
        remaining == RemainingAfter(evt)
        recorded == AttemptRecorded(sender, _eventId, result)
        minted == [name |-> "Transfer", from |-> 0, to |-> sender,
                   tokenId |-> ticketId]
        grabbed == TicketGrabbed(_eventId, ticketId, sender, remaining)
        soldOut == [name |-> "EventSoldOut", eventId |-> _eventId]
        emitted == <<minted, recorded, grabbed>>
                   \o (IF LastTicketGone(remaining) THEN <<soldOut>> ELSE <<>>)
    IN  IF ~EventExists(evt) THEN Revert(call, "Event does not exist")
        ELSE IF result # "Success" THEN
             /\ Len(history) < MaxCalls
             /\ ReturnFailure(sender, _eventId, result)
             /\ history' = Append(history,
                                  Returned(sender, _eventId, FALSE, result, 0,
                                           <<recorded>>))
             /\ lastCall' = [call EXCEPT !.result = result,
                                         !.emitted = <<recorded>>]
        \* evt.remainingTickets-- is checked arithmetic: Panic(0x11) at 0
        ELSE IF evt.remainingTickets = 0 THEN Revert(call, "Panic(0x11)")
        \* ERC721._mint reverts when the token already has an owner
        ELSE IF owners[ticketId] # 0 THEN Revert(call, "ERC721InvalidSender")
        ELSE /\ Len(history) < MaxCalls
             /\ nextTicketId' = NextTicketIdAfter(ticketId)
             /\ events' = [events EXCEPT ![_eventId].remainingTickets = remaining]
             /\ tickets' = StoreTicket(ticketId, _eventId, sender)
             /\ hasTicketForEvent' = MarkHolder(_eventId, sender)
             /\ userTicketForEvent' =
                    [userTicketForEvent EXCEPT ![_eventId][sender] = ticketId]
             /\ eventTickets' = [eventTickets EXCEPT ![_eventId] = Append(@, ticketId)]
             /\ userEvents' = [userEvents EXCEPT ![sender] = Append(@, _eventId)]
             /\ owners' = [owners EXCEPT ![ticketId] = sender]
             /\ _recordAttempt(sender, _eventId, result)
             /\ history' = Append(history,
                                  Returned(sender, _eventId, TRUE, result,
                                           ticketId, emitted))
             /\ lastCall' = [call EXCEPT !.success = TRUE, !.result = result,
                                         !.ticketId = ticketId,
                                         !.emitted = emitted]
             /\ UNCHANGED <<nextEventId, allEventIds>>

\* ------------------------------------------------- inherited transferFrom
\* mutant: any caller may move any token
_isAuthorized_Anyone(owner, spender) == spender # 0

\* ERC721._isAuthorized with no approval ever granted
_isAuthorized(owner, spender) == spender # 0 /\ owner = spender

\* ERC721.transferFrom(from, to, tokenId), public and not overridden
transferFrom(sender, from, to, tokenId) ==
    LET call == [NoCall EXCEPT !.fn = "transferFrom", !.sender = sender]
        previousOwner == owners[tokenId]
        transfer == [name |-> "Transfer", from |-> previousOwner, to |-> to,
                     tokenId |-> tokenId]
    IN  IF to = 0 THEN Revert(call, "ERC721InvalidReceiver")
        ELSE IF ~_isAuthorized(previousOwner, sender) THEN
             IF previousOwner = 0
             THEN Revert(call, "ERC721NonexistentToken")
             ELSE Revert(call, "ERC721InsufficientApproval")
        ELSE IF previousOwner # from THEN Revert(call, "ERC721IncorrectOwner")
        ELSE /\ owners' = [owners EXCEPT ![tokenId] = to]
             /\ lastCall' = [call EXCEPT !.ticketId = tokenId,
                                         !.emitted = <<transfer>>]
             /\ UNCHANGED <<nextEventId, nextTicketId, events, tickets,
                            hasTicketForEvent, userTicketForEvent,
                            eventTickets, userEvents, userAttempts,
                            allEventIds, history>>

\* Blocks are mined with non-decreasing timestamps.
Tick ==
    /\ blockTimestamp < MaxTime
    /\ blockTimestamp' = blockTimestamp + 1
    /\ UNCHANGED <<storage, history, lastCall, probe, presence, txHistory, createPage>>

Next ==
    \/ \E s \in Organizers, ti \in Titles, st \in Times, n \in 0..MaxTickets :
          createEvent(s, ti, st, n) /\ UNCHANGED <<blockTimestamp, probe, presence, txHistory, createPage>>
    \/ \E s \in Users, e \in EventIds :
          grabTicket(s, e) /\ UNCHANGED <<blockTimestamp, probe, presence, txHistory, createPage>>
    \/ Tick

Spec == Init /\ [][Next]_vars

\* The engine together with the token transfers it inherits.
NextERC721 ==
    \/ Next
    \/ \E s \in Users, f \in Users, to \in Recipients, t \in TransferTokens :
          transferFrom(s, f, to, t) /\ UNCHANGED <<blockTimestamp, probe, presence, txHistory, createPage>>

SpecERC721 == Init /\ [][NextERC721]_vars

\* ------------------------------------------------------------------ views
\* enum EventStatus { NotStarted, InProgress, SoldOut }
EventStatus == {"NotStarted", "InProgress", "SoldOut"}

\* mutant: the exhaustion check comes before the start-time check
getEventStatus_SoldOutFirst(timestamp, evt) ==
    IF ~EventExists(evt) THEN "Event does not exist"
    ELSE IF evt.remainingTickets = 0 THEN "SoldOut"
    ELSE IF timestamp < evt.startTime THEN "NotStarted"
    ELSE "InProgress"

\* mutant: the event counts as not started at its start time
getEventStatus_StartExclusive(timestamp, evt) ==
    IF ~EventExists(evt) THEN "Event does not exist"
    ELSE IF timestamp <= evt.startTime THEN "NotStarted"
    ELSE IF evt.remainingTickets = 0 THEN "SoldOut"
    ELSE "InProgress"

\* getEventStatus(_eventId) as a function of what it reads: block.timestamp
\* and evt = events[_eventId].  A failed require gives its message.
getEventStatus(timestamp, evt) ==
    IF ~EventExists(evt) THEN "Event does not exist"
    ELSE IF timestamp < evt.startTime THEN "NotStarted"
    ELSE IF evt.remainingTickets = 0 THEN "SoldOut"
    ELSE "InProgress"

\* getEvent(_eventId), likewise
getEvent(timestamp, evt) ==
    IF ~EventExists(evt)
    THEN [reverted |-> TRUE, reason |-> "Event does not exist"]
    ELSE [reverted |-> FALSE, id |-> evt.id, title |-> evt.title,
          startTime |-> evt.startTime, totalTickets |-> evt.totalTickets,
          remainingTickets |-> evt.remainingTickets,
          organizer |-> evt.organizer,
          status |-> getEventStatus(timestamp, evt)]

\* mutant: the tickets are read oldest first
getRecentTickets_OldestFirst(_eventId, _limit) ==
    LET evtTickets == eventTickets[_eventId]
        len == Len(evtTickets)
        returnLen == IF len < _limit THEN len ELSE _limit
        tId(i) == evtTickets[i]
    IN  [ticketIds |-> [i \in 1..returnLen |-> tId(i)],
         owners |-> [i \in 1..returnLen |-> tickets[tId(i)].owner],
         acquiredTimes |-> [i \in 1..returnLen |-> tickets[tId(i)].acquiredAt]]

\* getRecentTickets: the loop index i of the code is 0-based, a sequence is
\* 1-based, so evtTickets[len - 1 - i] is evtTickets[len + 1 - i] here.
getRecentTickets(_eventId, _limit) ==
    LET evtTickets == eventTickets[_eventId]
        len == Len(evtTickets)
        returnLen == IF len < _limit THEN len ELSE _limit
        tId(i) == evtTickets[len + 1 - i]
    IN  [ticketIds |-> [i \in 1..returnLen |-> tId(i)],
         owners |-> [i \in 1..returnLen |-> tickets[tId(i)].owner],
         acquiredTimes |-> [i \in 1..returnLen |-> tickets[tId(i)].acquiredAt]]

getAllEventIds == allEventIds

\* getUserTickets: one entry per element of userEvents[_user]
getUserTickets(_user) ==
    LET userEventsList == userEvents[_user]
        len == Len(userEventsList)
        tId(i) == userTicketForEvent[userEventsList[i]][_user]
    IN  [ticketIds |-> [i \in 1..len |-> tId(i)],
         eventIds |-> [i \in 1..len |-> userEventsList[i]],
         eventTitles |-> [i \in 1..len |-> events[userEventsList[i]].title],
         acquiredTimes |-> [i \in 1..len |-> tickets[tId(i)].acquiredAt]]

getUserAttempts(_user) == userAttempts[_user]


\* mutant: the existence check is missing
tokenURI_NoExistenceCheck(tokenId) ==
    LET ticket == tickets[tokenId]
        evt == events[ticket.eventId]
    IN  [reverted |-> FALSE, reason |-> "",
         name |-> <<evt.title, tokenId>>, description |-> evt.title,
         eventId |-> ticket.eventId, ticketId |-> tokenId]

\* tokenURI(tokenId): the require, then the metadata, kept as the values the
\* JSON is built from: name (title and '#' id), description (title), and
\* the attributes Event ID and Ticket ID.
tokenURI(tokenId) ==
    LET ticket == tickets[tokenId]
        evt == events[ticket.eventId]
    IN  IF ticket.id = 0
        THEN [reverted |-> TRUE, reason |-> "Token does not exist",
              name |-> <<>>, description |-> "", eventId |-> 0,
              ticketId |-> 0]
        ELSE [reverted |-> FALSE, reason |-> "",
              name |-> <<evt.title, tokenId>>, description |-> evt.title,
              eventId |-> ticket.eventId, ticketId |-> tokenId]

\* mutant: the remaining counts are filled from totalTickets
getAllEvents_TotalForRemaining ==
    LET len == Len(allEventIds)
        evt(i) == events[allEventIds[i]]
    IN  [ids |-> [i \in 1..len |-> evt(i).id],
         titles |-> [i \in 1..len |-> evt(i).title],
         startTimes |-> [i \in 1..len |-> evt(i).startTime],
         totalTicketCounts |-> [i \in 1..len |-> evt(i).totalTickets],
         remainingTicketCounts |-> [i \in 1..len |-> evt(i).totalTickets],
         organizers |-> [i \in 1..len |-> evt(i).organizer]]

\* getAllEvents: six parallel arrays over allEventIds
getAllEvents ==
    LET len == Len(allEventIds)
        evt(i) == events[allEventIds[i]]
    IN  [ids |-> [i \in 1..len |-> evt(i).id],
         titles |-> [i \in 1..len |-> evt(i).title],
         startTimes |-> [i \in 1..len |-> evt(i).startTime],
         totalTicketCounts |-> [i \in 1..len |-> evt(i).totalTickets],
         remainingTicketCounts |-> [i \in 1..len |-> evt(i).remainingTickets],
         organizers |-> [i \in 1..len |-> evt(i).organizer]]

\* ----------------------------------------------------------- the client
\* The numbers the two enums stand for: the contract returns an EventStatus
\* as its index, the client casts the number to its own enum.
EventStatusIndex == [NotStarted |-> 0, InProgress |-> 1, SoldOut |-> 2]

EventStatusTS == [NotStarted |-> 0, InProgress |-> 1, SoldOut |-> 2]

\* getEventStatusFromData(startTime, remainingTickets), with the client's
\* clock reading Math.floor(Date.now() / 1000) passed as now
getEventStatusFromData(now, startTime, remainingTickets) ==
    IF now < startTime THEN EventStatusTS.NotStarted
    ELSE IF remainingTickets = 0 THEN EventStatusTS.SoldOut
    ELSE EventStatusTS.InProgress

\* useTicketEngine: the rows of the event listing, built from getAllEvents
useTicketEngineEvents(now) ==
    LET allEventsData == getAllEvents
    IN  [index \in 1..Len(allEventsData.ids) |->
            [id |-> allEventsData.ids[index],
             title |-> allEventsData.titles[index],
             startTime |-> allEventsData.startTimes[index],
             totalTickets |-> allEventsData.totalTicketCounts[index],
             remainingTickets |-> allEventsData.remainingTicketCounts[index],
             organizer |-> allEventsData.organizers[index],
             status |-> getEventStatusFromData(
                            now, allEventsData.startTimes[index],
                            allEventsData.remainingTicketCounts[index])]]

\* receipt.status of the mined transaction: "reverted" when it reverted,
\* "success" when it ran to its end, whatever it returned
ReceiptStatus(call) == IF call.reverted THEN "reverted" ELSE "success"

\* handleGrabTicket of the event page, from the receipt on: the result it
\* shows, the success flag of the record it saves and the status it passes
\* to endGrabbing
handleGrabTicket(call) ==
    LET isSuccess == ReceiptStatus(call) = "success"
    IN  [grabResult |-> IF isSuccess
                        THEN [success |-> TRUE, result |-> "Success"]
                        ELSE [success |-> FALSE, result |-> "SoldOut"],
         txRecord |-> [type |-> "grab", eventId |-> call.eventId,
                       userAddress |-> call.sender, success |-> isSuccess],
         endGrabbing |-> IF isSuccess THEN "success" ELSE "failed"]

\* ------------------------------------------------ the checks, on their own
\* grabTicket's checks and the status views applied to any timestamp, start
\* time, holder flag and remaining count, also the combinations no run of
\* the contract reaches (block.timestamp before startTime for an address
\* that holds a ticket, or for an event with no ticket left).
ProbeInputs ==
    [timestamp : 0..(MaxTime + 1), startTime : 0..(MaxTime + 1),
     hasTicket : BOOLEAN, remainingTickets : 0..MaxTickets, result : {""},
     status : {""}, viewStatus : {""}]

ProbeEvent ==
    [NoEvent EXCEPT !.id = 1, !.exists = TRUE, !.startTime = probe.startTime,
                    !.totalTickets = MaxTickets,
                    !.remainingTickets = probe.remainingTickets]

InitChecks ==
    /\ Contract
    /\ probe \in ProbeInputs
    /\ presence = NoPresence
    /\ txHistory = NoTxHistory
    /\ createPage = NoCreatePage

ApplyChecks ==
    /\ probe.result = ""
    /\ probe' = [probe EXCEPT !.result =
                    AttemptOutcome(probe.timestamp, ProbeEvent, probe.hasTicket)]
    /\ UNCHANGED <<blockTimestamp, storage, history, lastCall, presence, txHistory,
                   createPage>>

ApplyStatus ==
    /\ probe.status = ""
    /\ probe' = [probe EXCEPT
                    !.status = getEventStatus(probe.timestamp, ProbeEvent),
                    !.viewStatus = getEvent(probe.timestamp, ProbeEvent).status]
    /\ UNCHANGED <<blockTimestamp, storage, history, lastCall, presence, txHistory,
                   createPage>>

NextChecks ==
    \/ ApplyChecks
    \/ ApplyStatus

SpecChecks == InitChecks /\ [][NextChecks]_vars

\* ------------------------------------------- two claims, in either order
\* After a run of the contract, a claim by u1 on event a and a claim by u2
\* on a different event b are executed in the same block, first a then b;
\* the chain is then put back to the state before them and they are
\* executed b then a.  probe keeps that earlier state and what each order
\* gave.
Running == [phase |-> "run"]

InitPairs ==
    /\ Contract
    /\ probe = Running
    /\ presence = NoPresence
    /\ txHistory = NoTxHistory
    /\ createPage = NoCreatePage

\* what the comparison reads after the second claim of an order
PairResult(first, second) ==
    [first |-> first, second |-> second,
     remainingTickets |-> [e \in EventIds |-> events[e].remainingTickets]',
     holders |-> hasTicketForEvent']

Outcome(call) == [success |-> call.success, result |-> call.result]

RunContract ==
    /\ probe.phase = "run"
    /\ Next

\* the chain state the two orders start from
Snapshot ==
    [nextEventId |-> nextEventId, nextTicketId |-> nextTicketId,
     events |-> events, tickets |-> tickets,
     hasTicketForEvent |-> hasTicketForEvent,
     userTicketForEvent |-> userTicketForEvent,
     eventTickets |-> eventTickets, userEvents |-> userEvents,
     userAttempts |-> userAttempts, allEventIds |-> allEventIds,
     owners |-> owners, history |-> history, lastCall |-> lastCall]

\* nothing executed yet
NoOutcome == [success |-> FALSE, result |-> ""]

BeginPair(u1, a, u2, b) ==
    /\ probe.phase = "run"
    /\ a # b
    /\ events[a].exists
    /\ events[b].exists
    /\ Len(history) + 2 <= MaxCalls
    /\ probe' = [phase |-> "a", u1 |-> u1, a |-> a, u2 |-> u2, b |-> b,
                 saved |-> Snapshot,
                 atA |-> NoOutcome, atB |-> NoOutcome,
                 ab |-> <<>>, ba |-> <<>>]
    /\ UNCHANGED <<blockTimestamp, storage, history, lastCall, presence, txHistory,
                   createPage>>

ClaimA ==
    /\ probe.phase \in {"a", "ba"}
    /\ grabTicket(probe.u1, probe.a)
    /\ probe' = IF probe.phase = "a"
                THEN [probe EXCEPT !.phase = "ab", !.atA = Outcome(lastCall')]
                ELSE [probe EXCEPT !.phase = "done",
                                   !.ba = PairResult(Outcome(lastCall'),
                                                     probe.atB)]
    /\ UNCHANGED <<blockTimestamp, presence, txHistory, createPage>>

ClaimB ==
    /\ probe.phase \in {"ab", "b"}
    /\ grabTicket(probe.u2, probe.b)
    /\ probe' = IF probe.phase = "ab"
                THEN [probe EXCEPT !.phase = "rewind",
                                   !.ab = PairResult(probe.atA,
                                                     Outcome(lastCall'))]
                ELSE [probe EXCEPT !.phase = "ba", !.atB = Outcome(lastCall')]
    /\ UNCHANGED <<blockTimestamp, presence, txHistory, createPage>>

Rewind ==
    /\ probe.phase = "rewind"
    /\ nextEventId' = probe.saved.nextEventId
    /\ nextTicketId' = probe.saved.nextTicketId
    /\ events' = probe.saved.events
    /\ tickets' = probe.saved.tickets
    /\ hasTicketForEvent' = probe.saved.hasTicketForEvent
    /\ userTicketForEvent' = probe.saved.userTicketForEvent
    /\ eventTickets' = probe.saved.eventTickets
    /\ userEvents' = probe.saved.userEvents
    /\ userAttempts' = probe.saved.userAttempts
    /\ allEventIds' = probe.saved.allEventIds
    /\ owners' = probe.saved.owners
    /\ history' = probe.saved.history
    /\ lastCall' = probe.saved.lastCall
    /\ probe' = [probe EXCEPT !.phase = "b", !.atA = NoOutcome]
    /\ UNCHANGED <<blockTimestamp, presence, txHistory, createPage>>

NextPairs ==
    \/ RunContract
    \/ \E u1 \in Users, u2 \in Users, a \in EventIds, b \in EventIds :
          BeginPair(u1, a, u2, b)
    \/ ClaimA
    \/ ClaimB
    \/ Rewind

SpecPairs == InitPairs /\ [][NextPairs]_vars

\* ------------------------------------------------------ realtime presence
\* useGrabbingSync for one event.  The table has at most one row per wallet
\* (upsert on event_id, wallet_address).  A committed write is notified to
\* the clients subscribed at that time, each over its own channel, in
\* commit order.  A client's initial fetch is answered with the rows that
\* had status 'grabbing' when the query ran; the answer and the
\* notifications reach the client in any order.  No code deletes a row.
RowOf(w, row) ==
    [wallet_address |-> w, status |-> row.status, started_at |-> row.started_at]

\* .eq("status", "grabbing").order("started_at", { ascending: false })
RECURSIVE NewestFirst(_)
NewestFirst(ws) ==
    IF ws = {} THEN <<>>
    ELSE LET w == CHOOSE x \in ws :
                     \A y \in ws : presence.table[y].started_at
                                      <= presence.table[x].started_at
         IN  <<RowOf(w, presence.table[w])>> \o NewestFirst(ws \ {w})

SelectGrabbing ==
    NewestFirst({w \in Wallets : presence.table[w].status = "grabbing"})

\* the channels after a committed change is published
Published(payload) ==
    [c \in Clients |->
        IF presence.subscribed[c]
        THEN Append(presence.channel[c], payload)
        ELSE presence.channel[c]]

\* whether a client has been left out of a publication: true once a change
\* commits while the client is not subscribed
Missed ==
    [c \in Clients |-> presence.missed[c] \/ ~presence.subscribed[c]]

\* the subscription's payload handler, as the state update it queues
payloadHandler(prev, payload) ==
    IF payload.eventType = "INSERT" THEN
         IF payload.new.status = "grabbing"
         THEN IF \E i \in 1..Len(prev) :
                     prev[i].wallet_address = payload.new.wallet_address
              THEN prev
              ELSE <<payload.new>> \o prev
         ELSE prev
    ELSE IF payload.eventType = "UPDATE" THEN
         IF payload.new.status # "grabbing"
         THEN SelectSeq(prev, LAMBDA q :
                            q.wallet_address # payload.new.wallet_address)
         ELSE prev
    ELSE prev

startGrabbing(walletAddress) ==
    LET eventType == IF presence.table[walletAddress].status = "none"
                     THEN "INSERT" ELSE "UPDATE"
        row == [status |-> "grabbing", started_at |-> presence.writes + 1]
    IN  /\ presence.writes < MaxWrites
        /\ presence' = [presence EXCEPT
                           !.table[walletAddress] = row,
                           !.writes = @ + 1,
                           !.missed = Missed,
                           !.channel = Published(
                               [eventType |-> eventType,
                                new |-> RowOf(walletAddress, row)])]

endGrabbing(walletAddress, success) ==
    LET old == presence.table[walletAddress]
        row == [old EXCEPT !.status = IF success THEN "success" ELSE "failed"]
    IN  /\ presence.writes < MaxWrites
        /\ old.status # "none"
        /\ presence' = [presence EXCEPT
                           !.table[walletAddress] = row,
                           !.writes = @ + 1,
                           !.missed = Missed,
                           !.channel = Published(
                               [eventType |-> "UPDATE",
                                new |-> RowOf(walletAddress, row)])]

Subscribe(c) ==
    /\ ~presence.subscribed[c]
    /\ presence' = [presence EXCEPT !.subscribed[c] = TRUE]

\* the initial select runs on the server
FetchRuns(c) ==
    /\ presence.fetch[c].phase = "unsent"
    /\ presence' = [presence EXCEPT
                       !.fetch[c] = [phase |-> "sent", data |-> SelectGrabbing]]

\* its answer arrives: setGrabbingList(data)
FetchAnswered(c) ==
    /\ presence.fetch[c].phase = "sent"
    /\ presence' = [presence EXCEPT
                       !.fetch[c] = [phase |-> "done", data |-> <<>>],
                       !.grabbingList[c] = presence.fetch[c].data]

\* the oldest notification on the client's channel is handled
Notified(c) ==
    /\ presence.channel[c] # <<>>
    /\ presence' = [presence EXCEPT
                       !.channel[c] = Tail(@),
                       !.grabbingList[c] =
                           payloadHandler(@, Head(presence.channel[c]))]

\* grabbingList as the hook returns it
activeGrabbing(c) ==
    SelectSeq(presence.grabbingList[c], LAMBDA q : q.status = "grabbing")

\* the presence table is off chain: its writes leave the contract as it is
ChainUnchanged ==
    UNCHANGED <<blockTimestamp, storage, history, lastCall, probe, txHistory,
                createPage>>

NextPresence ==
    \/ \E w \in Wallets : startGrabbing(w) /\ ChainUnchanged
    \/ \E w \in Wallets, success \in BOOLEAN :
          endGrabbing(w, success) /\ ChainUnchanged
    \/ \E c \in Clients : Subscribe(c) /\ ChainUnchanged
    \/ \E c \in Clients : FetchRuns(c) /\ ChainUnchanged
    \/ \E c \in Clients : FetchAnswered(c) /\ ChainUnchanged
    \/ \E c \in Clients : Notified(c) /\ ChainUnchanged

SpecPresence == Init /\ [][NextPresence]_vars

\* ------------------------------------------------- transaction history
\* useTransactionHistory. A TransactionRecord is kept as its hash and its
\* optional eventId (Undefined when the record has none); the other fields
\* are carried the same way and are left out.
TransactionRecords == [hash : Hashes, eventId : {Undefined, 1}]

NoDuplicateHash(records) ==
    \A i \in 1..Len(records) : \A j \in 1..Len(records) :
        records[i].hash = records[j].hash => i = j

RECURSIVE Histories(_)
Histories(n) ==
    IF n = 0 THEN {<<>>}
    ELSE Histories(n - 1) \cup
         {<<r>> \o h : r \in TransactionRecords,
                       h \in {g \in Histories(n - 1) : Len(g) = n - 1}}

\* JSON.stringify writes an object without its undefined properties ...
JSON_stringify(records) ==
    [i \in 1..Len(records) |->
        [k \in {f \in DOMAIN records[i] : records[i][f] # Undefined} |->
            records[i][k]]]

\* ... and a property missing from a parsed object reads as undefined.
JSON_parse(text) ==
    [i \in 1..Len(text) |->
        [k \in {"hash", "eventId"} |->
            IF k \in DOMAIN text[i] THEN text[i][k] ELSE Undefined]]

setItem(records) == [present |-> TRUE, text |-> JSON_stringify(records)]

\* The load effect of the mount: getItem, and setTransactions when an item
\* is stored.
LoadEffect ==
    /\ ~txHistory.isLoaded
    /\ txHistory' =
         [txHistory EXCEPT
            !.transactions = IF txHistory.localStorage.present
                             THEN JSON_parse(txHistory.localStorage.text)
                             ELSE @,
            !.isLoaded = TRUE]

\* The updater addTransaction passes to setTransactions: prev is returned as
\* it is when it holds the hash, else the record is put in front and the new
\* list is saved.
addTransactionUpdater(prev, store, record) ==
    IF \E i \in 1..Len(prev) : prev[i].hash = record.hash
    THEN [transactions |-> prev, localStorage |-> store]
    ELSE [transactions |-> <<record>> \o prev,
          localStorage |-> setItem(<<record>> \o prev)]

\* setTransactions queues its argument for the component's next render.
Queued(update) ==
    [txHistory EXCEPT !.pending = Append(@, update), !.calls = @ + 1]

addTransaction(record) ==
    /\ txHistory.isLoaded
    /\ txHistory.calls < MaxHistoryCalls
    /\ txHistory' = Queued([updater |-> TRUE, record |-> record])

\* clearHistory queues the empty list and removes the item at once.
clearHistory ==
    /\ txHistory.isLoaded
    /\ txHistory.calls < MaxHistoryCalls
    /\ txHistory' =
         [Queued([updater |-> FALSE, record |-> [hash |-> 0, eventId |-> 0]])
            EXCEPT !.localStorage = NoItem]

\* The render applies the queued updates in the order of the calls; an
\* updater runs here, its saveToStorage with it.
RECURSIVE Reduce(_, _, _)
Reduce(prev, store, queue) ==
    IF queue = <<>> THEN [transactions |-> prev, localStorage |-> store]
    ELSE IF Head(queue).updater
         THEN LET next == addTransactionUpdater(prev, store, Head(queue).record)
              IN  Reduce(next.transactions, next.localStorage, Tail(queue))
         ELSE Reduce(<<>>, store, Tail(queue))

Render ==
    /\ txHistory.pending # <<>>
    /\ LET next == Reduce(txHistory.transactions, txHistory.localStorage,
                          txHistory.pending)
       IN  txHistory' = [txHistory EXCEPT
                            !.transactions = next.transactions,
                            !.localStorage = next.localStorage,
                            !.pending = <<>>]

\* The hook runs in the browser: the contract and the other clients stay.
BrowserOnly ==
    UNCHANGED <<blockTimestamp, storage, history, lastCall, probe, presence,
                createPage>>

\* A stored history without duplicate hashes, or none.
InitHistory ==
    /\ Contract
    /\ probe = NoProbe
    /\ presence = NoPresence
    /\ createPage = NoCreatePage
    /\ \E stored \in {NoItem} \cup {setItem(h) : h \in {g \in Histories(NumHashes) : NoDuplicateHash(g)}} :
          txHistory = [NoTxHistory EXCEPT !.localStorage = stored]

NextHistory ==
    \/ LoadEffect /\ BrowserOnly
    \/ \E record \in TransactionRecords : addTransaction(record) /\ BrowserOnly
    \/ clearHistory /\ BrowserOnly
    \/ Render /\ BrowserOnly

SpecHistory == InitHistory /\ [][NextHistory]_vars

\* ------------------------------------------------------------ create page
\* CreateEventPage. The wallet connected to the page; the other creators
\* send createEvent as in Next.
PageCreator == 2

NotThePage ==
    UNCHANGED <<blockTimestamp, probe, presence, txHistory, createPage>>

\* useScaffoldReadContract("nextEventId") delivers the current value.
ReadNextEventId ==
    /\ createPage.nextEventId # nextEventId
    /\ createPage' = [createPage EXCEPT !.nextEventId = nextEventId]
    /\ UNCHANGED <<blockTimestamp, storage, history, lastCall, probe, presence,
                   txHistory>>

\* handleSubmit up to the await of writeContractAsync: the handler keeps the
\* nextEventId of the render it was made in, and the transaction is sent.
handleSubmit ==
    /\ createPage.phase = "idle"
    /\ createPage' = [createPage EXCEPT !.phase = "sent",
                                        !.submitted = createPage.nextEventId]
    /\ UNCHANGED <<blockTimestamp, storage, history, lastCall, probe, presence,
                   txHistory>>

\* The page's transaction is executed: createEvent with the page's wallet as
\* msg.sender.
PageTransactionMined(_startTime, _totalTickets) ==
    /\ createPage.phase = "sent"
    /\ createEvent(PageCreator, "Gala", _startTime, _totalTickets)
    /\ createPage' =
          IF lastCall'.reverted
          THEN [createPage EXCEPT !.phase = "reverted"]
          ELSE [createPage EXCEPT !.phase = "mined",
                                  !.assigned = lastCall'.eventId]
    /\ UNCHANGED <<blockTimestamp, probe, presence, txHistory>>

\* handleSubmit after the receipt: setCreatedEventId(nextEventId ?? 1n)
ReceiptReceived ==
    /\ createPage.phase = "mined"
    /\ createPage' =
          [createPage EXCEPT
              !.phase = "confirmed",
              !.createdEventId = IF createPage.submitted = Undefined
                                 THEN 1 ELSE createPage.submitted]
    /\ UNCHANGED <<blockTimestamp, storage, history, lastCall, probe, presence,
                   txHistory>>

NextCreatePage ==
    \/ \E s \in Organizers, ti \in Titles, st \in Times, n \in 0..MaxTickets :
          createEvent(s, ti, st, n) /\ NotThePage
    \/ Tick
    \/ ReadNextEventId
    \/ handleSubmit
    \/ \E st \in Times, n \in 1..MaxTickets : PageTransactionMined(st, n)
    \/ ReceiptReceived

SpecCreatePage == Init /\ [][NextCreatePage]_vars


\* ------------------------------------------------------- reading the state
RECURSIVE Sum(_, _)
Sum(f, S) == IF S = {} THEN 0
             ELSE LET x == CHOOSE y \in S : TRUE IN f[x] + Sum(f, S \ {x})

Min(a, b) == IF a <= b THEN a ELSE b

Created == {e \in EventIds : events[e].exists}

\* the calls on event e that returned `result`, over the whole run
ReturnedWith(e, result) ==
    Len(SelectSeq(history, LAMBDA h : h.eventId = e /\ h.result = result))

Issued == {t \in TicketIds : tickets[t].id # 0}

\* ------------------------------------------------------------------ claims

\* C1: no oversell. For every event, the number of grabTicket calls that
\* returned Success for it equals totalTickets - remainingTickets and is at
\* most totalTickets, in every reachable state.
C1_NoOversell ==
    \A e \in Created :
        /\ ReturnedWith(e, "Success") = events[e].totalTickets - events[e].remainingTickets
        /\ ReturnedWith(e, "Success") <= events[e].totalTickets

\* an event sold to its capacity of 2 on which a further claim was made
C1_Witness ==
    \E e \in Created :
        /\ events[e].totalTickets = 2
        /\ ReturnedWith(e, "Success") = 2
        /\ ReturnedWith(e, "SoldOut") >= 1

\* C2: at most one ticket per claimant per event. For every (eventId,
\* claimant) at most one ticket record has that event and that owner.
C2_OneTicketPerClaimant ==
    \A e \in EventIds, u \in Users :
        Cardinality({t \in Issued : tickets[t].eventId = e /\ tickets[t].owner = u}) <= 1

\* a ticket holder claimed again on an event that still has tickets left
C2_Witness ==
    \E e \in Created, i \in 1..Len(history) :
        /\ history[i].eventId = e
        /\ history[i].result = "AlreadyOwnsTicket"
        /\ events[e].remainingTickets > 0
        /\ \E t \in Issued : tickets[t].eventId = e /\ tickets[t].owner = history[i].sender

\* the claims made on event e at or after its start time, in execution order
AfterStart(e) ==
    SelectSeq(history, LAMBDA h : h.eventId = e /\ h.timestamp >= events[e].startTime)

DistinctSenders(q) ==
    \A i, j \in 1..Len(q) : i # j => q[i].sender # q[j].sender

\* the attempt entries logged for event e at or after its start time
LoggedAfterStart(e) ==
    Sum([u \in Users |->
            Len(SelectSeq(userAttempts[u],
                          LAMBDA a : a.eventId = e /\ a.timestamp >= events[e].startTime))],
        Users)

\* C3: when N distinct claimants each claim once on a started event of
\* capacity C, in whatever order, exactly min(N, C) calls return Success, the
\* other N - min(N, C) return SoldOut, none returns AlreadyOwnsTicket, and N
\* attempts are logged.
C3_DistinctClaimants ==
    \A e \in Created :
        LET q == AfterStart(e)
            N == Len(q)
            C == events[e].totalTickets
            With(r) == Len(SelectSeq(q, LAMBDA h : h.result = r))
        IN  DistinctSenders(q) =>
                /\ With("Success") = Min(N, C)
                /\ With("SoldOut") = N - Min(N, C)
                /\ With("AlreadyOwnsTicket") = 0
                /\ With("NotStarted") = 0
                /\ LoggedAfterStart(e) = N

\* three distinct claimants have claimed once each on an event of capacity 2
C3_Witness ==
    \E e \in Created :
        /\ events[e].totalTickets = 2
        /\ Len(AfterStart(e)) = 3
        /\ DistinctSenders(AfterStart(e))

\* call i of the run was eligible: made at or after the start of its event by
\* a sender no earlier call had given a ticket for that event
Eligible(i) ==
    /\ history[i].timestamp >= events[history[i].eventId].startTime
    /\ \A j \in 1..(i - 1) :
          ~(/\ history[j].eventId = history[i].eventId
            /\ history[j].sender = history[i].sender
            /\ history[j].success)

\* the positions in the run of the eligible calls on event e
EligibleCalls(e) ==
    {i \in 1..Len(history) : history[i].eventId = e /\ Eligible(i)}

\* C4: first come, first served. The calls that succeed on an event are
\* exactly its first totalTickets eligible calls in execution order, and no
\* eligible call returns SoldOut while a later call on the event succeeds.
C4_FirstComeFirstServed ==
    \A e \in Created :
        /\ \A i \in 1..Len(history) :
              history[i].eventId = e =>
                 (history[i].success <=>
                     /\ Eligible(i)
                     /\ Cardinality({k \in EligibleCalls(e) : k < i}) < events[e].totalTickets)
        /\ \A i, j \in 1..Len(history) :
              ~(/\ i < j
                /\ history[i].eventId = e /\ history[j].eventId = e
                /\ Eligible(i) /\ history[i].result = "SoldOut"
                /\ history[j].success)

\* an eligible call came too late: the event's only ticket had gone to an
\* earlier eligible call
C4_Witness ==
    \E e \in Created, i, j \in 1..Len(history) :
        /\ i < j
        /\ history[i].eventId = e /\ history[i].success
        /\ history[j].eventId = e /\ Eligible(j) /\ history[j].result = "SoldOut"

\* C5: check ordering. The failure reason follows the order timing,
\* duplicate, exhaustion: before the start time the outcome is NotStarted even
\* for a holder on an exhausted event; otherwise a holder gets
\* AlreadyOwnsTicket even on an exhausted event; SoldOut is reported only for
\* a started, exhausted event and a claimant without a ticket.
C5_CheckOrder ==
    probe.result # "" =>
        /\ probe.timestamp < probe.startTime => probe.result = "NotStarted"
        /\ (probe.timestamp >= probe.startTime /\ probe.hasTicket)
              => probe.result = "AlreadyOwnsTicket"
        /\ probe.result = "SoldOut"
              => /\ probe.timestamp >= probe.startTime
                 /\ ~probe.hasTicket
                 /\ probe.remainingTickets = 0

\* not started, already held and exhausted at once: NotStarted is reported
C5_Witness ==
    /\ probe.result = "NotStarted"
    /\ probe.timestamp < probe.startTime
    /\ probe.hasTicket
    /\ probe.remainingTickets = 0

\* the attempts that the calls of user u that returned should have logged
AttemptsReturnedTo(u) ==
    LET q == SelectSeq(history, LAMBDA h : h.sender = u)
    IN  [i \in 1..Len(q) |->
            [eventId |-> q[i].eventId, participant |-> u,
             timestamp |-> q[i].timestamp, result |-> q[i].result]]

\* C6: ledger completeness. Every grabTicket call on an existing event
\* appends exactly one entry to the caller's attempt log, with the event id,
\* the caller, the call's timestamp and the outcome the call returned; no
\* other log gains an entry.  So each log is, entry for entry, the calls of its
\* user that returned.
C6_LedgerComplete ==
    \A u \in Users : userAttempts[u] = AttemptsReturnedTo(u)

\* a user's log holds a failed attempt followed by a successful one
C6_Witness ==
    \E u \in Users :
        /\ Len(userAttempts[u]) >= 2
        /\ userAttempts[u][1].result = "NotStarted"
        /\ userAttempts[u][2].result = "Success"

\* C7: a grabTicket call naming an event id that was never created reverts
\* with "Event does not exist" and leaves the whole state unchanged: no
\* attempt is logged, no counter moves, no ticket is issued.
C7_NotFoundAborts ==
    [][(lastCall'.fn = "grabTicket" /\ ~events[lastCall'.eventId].exists)
          => /\ lastCall'.reverted
             /\ lastCall'.reason = "Event does not exist"
             /\ UNCHANGED <<storage, history>>]_vars

\* a claim on an id never created was made after tickets had been issued
C7_Witness ==
    /\ lastCall.fn = "grabTicket"
    /\ lastCall.reverted
    /\ ~events[lastCall.eventId].exists
    /\ nextTicketId > 1

\* C8: every grabTicket call on an existing event returns one of the four
\* outcomes, with success = (outcome = Success) and ticketId = 0 on failure,
\* and never reverts.
C8_AlwaysAnOutcome ==
    /\ (lastCall.fn = "grabTicket" /\ events[lastCall.eventId].exists)
          => /\ ~lastCall.reverted
             /\ lastCall.result \in AttemptResult
             /\ lastCall.success = (lastCall.result = "Success")
             /\ ~lastCall.success => lastCall.ticketId = 0
    /\ \A i \in 1..Len(history) :
          /\ history[i].result \in AttemptResult
          /\ history[i].success = (history[i].result = "Success")
          /\ ~history[i].success => history[i].ticketId = 0

\* a claim on a sold-out event returned SoldOut after another had returned
\* AlreadyOwnsTicket
C8_Witness ==
    /\ lastCall.fn = "grabTicket"
    /\ lastCall.result = "SoldOut"
    /\ \E i \in 1..Len(history) : history[i].result = "AlreadyOwnsTicket"

Successes == SelectSeq(history, LAMBDA h : h.success)

\* C9: ticket id monotonicity. Over all events the ids returned by successive
\* successful claims are 1, 2, 3, ... in execution order, none is issued
\* twice, and failed claims consume no id.
C9_TicketIdsMonotonic ==
    /\ \A i \in 1..Len(Successes) : Successes[i].ticketId = i
    /\ nextTicketId = Len(Successes) + 1
    /\ Issued = 1..Len(Successes)

\* tickets of two different events were issued with a failed claim in between
C9_Witness ==
    \E i, j, k \in 1..Len(history) :
        /\ i < j /\ j < k
        /\ history[i].success /\ ~history[j].success /\ history[k].success
        /\ history[i].eventId # history[k].eventId

\* C10: a successful claim returns the value nextTicketId had before the
\* call, decreases the event's remainingTickets by exactly 1, stores the
\* ticket (id, eventId, owner = caller, acquiredAt = block.timestamp), marks
\* the caller as holder, and emits TicketGrabbed with that id and the
\* remaining count after the decrement.
C10_SuccessEffect ==
    [][(Len(history') = Len(history) + 1 /\ history'[Len(history')].success)
          => LET h == history'[Len(history')]
                 e == h.eventId
             IN  /\ h.ticketId = nextTicketId
                 /\ lastCall'.ticketId = nextTicketId
                 /\ events'[e].remainingTickets = events[e].remainingTickets - 1
                 /\ tickets'[h.ticketId] =
                       [id |-> h.ticketId, eventId |-> e, owner |-> h.sender,
                        acquiredAt |-> blockTimestamp]
                 /\ hasTicketForEvent'[e][h.sender]
                 /\ \E k \in 1..Len(lastCall'.emitted) :
                       /\ lastCall'.emitted[k].name = "TicketGrabbed"
                       /\ lastCall'.emitted[k].eventId = e
                       /\ lastCall'.emitted[k].ticketId = h.ticketId
                       /\ lastCall'.emitted[k].participant = h.sender
                       /\ lastCall'.emitted[k].remainingTickets =
                             events'[e].remainingTickets]_vars

\* the first of an event's two tickets has just been grabbed
C10_Witness ==
    /\ lastCall.fn = "grabTicket"
    /\ lastCall.success
    /\ events[lastCall.eventId].totalTickets = 2
    /\ events[lastCall.eventId].remainingTickets = 1

\* C11: createEvent rejects an empty title, a total of 0 tickets and a start
\* time that is not strictly after block.timestamp (a start time equal to it
\* included); a rejected call changes no state.
C11_CreateEventRejects ==
    [][\A s \in Organizers, ti \in Titles, st \in Times, n \in 0..MaxTickets :
          (createEvent(s, ti, st, n) /\ (ti = "" \/ n = 0 \/ st <= blockTimestamp))
             => /\ lastCall'.reverted
                /\ ti = "" => lastCall'.reason = "Title cannot be empty"
                /\ UNCHANGED <<storage, history>>]_vars

\* an event whose start time is not in the future was refused after another
\* event had been created and claimed on
C11_Witness ==
    /\ lastCall.fn = "createEvent"
    /\ lastCall.reverted
    /\ lastCall.reason = "Start time must be in future"
    /\ nextEventId = 2
    /\ nextTicketId > 1

\* C12: event ids. A successful createEvent returns the value nextEventId had
\* before the call, stores the event with remainingTickets = totalTickets and
\* appends the id to the listing; the listing is always 1, 2, ...,
\* nextEventId - 1 in creation order, an id exists iff it is in that range,
\* and no id is reused or removed.
C12_EventIds ==
    /\ allEventIds = [i \in 1..(nextEventId - 1) |-> i]
    /\ \A e \in EventIds :
          /\ events[e].exists <=> e \in 1..(nextEventId - 1)
          /\ events[e].exists => events[e].id = e
    /\ (lastCall.fn = "createEvent" /\ ~lastCall.reverted)
          => /\ lastCall.eventId = nextEventId - 1
             /\ events[lastCall.eventId].exists
             /\ events[lastCall.eventId].remainingTickets =
                   events[lastCall.eventId].totalTickets

\* a second event, of two tickets, has just been created and listed
C12_Witness ==
    /\ lastCall.fn = "createEvent"
    /\ ~lastCall.reverted
    /\ lastCall.eventId = 2
    /\ allEventIds = <<1, 2>>
    /\ events[2].remainingTickets = 2

\* C13: capacity. For every event 0 <= remainingTickets <= totalTickets;
\* totalTickets, title, startTime and organizer never change after creation;
\* remainingTickets never increases.
C13_Capacity ==
    [][\A e \in EventIds :
          /\ events'[e].exists
                => /\ 0 <= events'[e].remainingTickets
                   /\ events'[e].remainingTickets <= events'[e].totalTickets
          /\ events[e].exists
                => /\ events'[e].exists
                   /\ events'[e].totalTickets = events[e].totalTickets
                   /\ events'[e].title = events[e].title
                   /\ events'[e].startTime = events[e].startTime
                   /\ events'[e].organizer = events[e].organizer
                   /\ events'[e].remainingTickets <= events[e].remainingTickets]_vars

\* an event of two tickets is sold out
C13_Witness ==
    \E e \in Created :
        /\ events[e].totalTickets = 2
        /\ events[e].remainingTickets = 0

\* C14: failure frame. A claim that returns NotStarted, AlreadyOwnsTicket or
\* SoldOut appends its attempt to the caller's attempts and changes nothing
\* else: every event's remainingTickets, nextTicketId, the ticket records,
\* hasTicketForEvent and the per-event and per-user ticket lists stay as
\* they were.
C14_FailureFrame ==
    [][(Len(history') = Len(history) + 1 /\ ~history'[Len(history')].success)
          => LET h == history'[Len(history')]
             IN  /\ h.result \in {"NotStarted", "AlreadyOwnsTicket", "SoldOut"}
                 /\ userAttempts' =
                       [userAttempts EXCEPT ![h.sender] =
                           Append(@, [eventId |-> h.eventId,
                                      participant |-> h.sender,
                                      timestamp |-> h.timestamp,
                                      result |-> h.result])]
                 /\ UNCHANGED <<nextEventId, nextTicketId, events, tickets,
                                hasTicketForEvent, userTicketForEvent,
                                eventTickets, userEvents, allEventIds,
                                owners>>]_vars

\* a claim on an event that still has a ticket left was refused because the
\* caller already holds one
C14_Witness ==
    /\ lastCall.fn = "grabTicket"
    /\ ~lastCall.reverted
    /\ lastCall.result = "AlreadyOwnsTicket"
    /\ events[lastCall.eventId].remainingTickets = 1

\* C15: an event's remainingTickets changes only in a successful claim for
\* that same event; createEvent, claims on other events and failed claims
\* leave it unchanged, and the events, the listing and the attempts are
\* written by createEvent and grabTicket only.
C15_RemainingFrame ==
    [][/\ \A e \in EventIds :
             (events[e].exists
                /\ events'[e].remainingTickets # events[e].remainingTickets)
                => /\ lastCall'.fn = "grabTicket"
                   /\ lastCall'.success
                   /\ lastCall'.eventId = e
                   /\ Len(history') = Len(history) + 1
       /\ (<<nextEventId, events, allEventIds>>' # <<nextEventId, events, allEventIds>>
              \/ userAttempts' # userAttempts)
             => /\ lastCall'.fn \in {"createEvent", "grabTicket"}
                /\ ~lastCall'.reverted
       /\ userAttempts' # userAttempts => lastCall'.fn = "grabTicket"]_vars

\* a claim on event 2 succeeded while event 1 still has all its tickets
C15_Witness ==
    /\ lastCall.fn = "grabTicket"
    /\ lastCall.success
    /\ lastCall.eventId = 2
    /\ events[1].exists
    /\ events[1].remainingTickets = events[1].totalTickets
    /\ events[2].remainingTickets < events[2].totalTickets

\* C16: a ticket record (id, eventId, owner, acquiredAt), once written by the
\* claim that issued it, is never modified or deleted.
C16_TicketPermanent ==
    [][\A t \in TicketIds :
          tickets[t].id # 0 => tickets'[t] = tickets[t]]_vars

\* three tickets have been issued, the first one before the other two
C16_Witness ==
    /\ nextTicketId = 4
    /\ tickets[1].id = 1
    /\ tickets[3].id = 3

C18_HasTicketPersists ==
    \A i \in 1..Len(history) :
        history[i].success
           => /\ hasTicketForEvent[history[i].eventId][history[i].sender]
              /\ \A j \in (i + 1)..Len(history) :
                    (history[j].sender = history[i].sender
                       /\ history[j].eventId = history[i].eventId)
                       => history[j].result = "AlreadyOwnsTicket"

\* a claimant who gave the token away claims again on the sold-out event and
\* is told AlreadyOwnsTicket
C18_Witness ==
    /\ lastCall.fn = "grabTicket"
    /\ lastCall.result = "AlreadyOwnsTicket"
    /\ events[lastCall.eventId].remainingTickets = 0
    /\ \E i \in 1..(Len(history) - 1) :
          /\ history[i].success
          /\ history[i].sender = lastCall.sender
          /\ history[i].eventId = lastCall.eventId
          /\ owners[history[i].ticketId] # lastCall.sender

\* C19: getEventStatus of an existing event is NotStarted if block.timestamp
\* < startTime, otherwise SoldOut if remainingTickets = 0, otherwise
\* InProgress; an event that is not started and has nothing remaining is not
\* reported SoldOut; and the status inside getEvent is the one getEventStatus
\* gives for the same event and time.
C19_EventStatus ==
    probe.status \notin {"", "unused"}
       => /\ probe.timestamp < probe.startTime => probe.status = "NotStarted"
          /\ (probe.timestamp >= probe.startTime /\ probe.remainingTickets = 0)
                => probe.status = "SoldOut"
          /\ (probe.timestamp >= probe.startTime /\ probe.remainingTickets > 0)
                => probe.status = "InProgress"
          /\ probe.viewStatus = probe.status

\* the status was asked of an event that has not started and has no ticket
\* left
C19_Witness ==
    /\ probe.timestamp < probe.startTime
    /\ probe.remainingTickets = 0
    /\ probe.status = "NotStarted"
    /\ probe.viewStatus = "NotStarted"

\* C20: getRecentTickets(eventId, limit) returns the min(limit, k) most
\* recently issued tickets of the event, k being the number issued for it,
\* most recent first (strictly decreasing ticket id), each with its recorded
\* owner and acquisition time; a limit above k returns all k and a limit of
\* 0 returns the empty sequences.
C20_RecentTickets ==
    \A e \in EventIds, limit \in 0..MaxLimit :
        LET r == getRecentTickets(e, limit)
            ofEvent == {t \in Issued : tickets[t].eventId = e}
            n == Min(limit, Cardinality(ofEvent))
            returned == {r.ticketIds[i] : i \in 1..Len(r.ticketIds)}
        IN  /\ Len(r.ticketIds) = n
            /\ Len(r.owners) = n
            /\ Len(r.acquiredTimes) = n
            /\ returned \subseteq ofEvent
            /\ \A i \in 1..n :
                  /\ r.owners[i] = tickets[r.ticketIds[i]].owner
                  /\ r.acquiredTimes[i] = tickets[r.ticketIds[i]].acquiredAt
            /\ \A i \in 1..(n - 1) : r.ticketIds[i] > r.ticketIds[i + 1]
            /\ \A t \in ofEvent \ returned : \A u \in returned : t < u

\* event e holds tickets 1 and 3, ticket 2 is another event's: a limit of 1
\* gives ticket 3, a limit of 0 nothing and a limit of 3 both, newest first
C20_Witness ==
    \E e \in Created :
        /\ eventTickets[e] = <<1, 3>>
        /\ getRecentTickets(e, 1).ticketIds = <<3>>
        /\ getRecentTickets(e, 1).owners = <<tickets[3].owner>>
        /\ getRecentTickets(e, 0).ticketIds = <<>>
        /\ getRecentTickets(e, 3).ticketIds = <<3, 1>>

IsPrefix(p, q) ==
    /\ Len(p) <= Len(q)
    /\ \A i \in 1..Len(p) : p[i] = q[i]

\* the tickets the successful calls of user u returned, in execution order
TicketsReturnedTo(u) ==
    LET q == SelectSeq(history, LAMBDA h : h.sender = u /\ h.success)
    IN  [i \in 1..Len(q) |-> q[i].ticketId]

\* C21: the per-claimant histories are append-only and in insertion order:
\* for every user, what getUserAttempts and getUserTickets return before a
\* step is a prefix of what they return after it, and the entries are in the
\* order in which that user's claims were executed.
C21_HistoriesAppendOnly ==
    [][\A u \in Users :
          /\ IsPrefix(getUserAttempts(u), getUserAttempts(u)')
          /\ IsPrefix(getUserTickets(u).ticketIds, getUserTickets(u).ticketIds')
          /\ IsPrefix(getUserTickets(u).eventIds, getUserTickets(u).eventIds')
          /\ IsPrefix(getUserTickets(u).eventTitles, getUserTickets(u).eventTitles')
          /\ IsPrefix(getUserTickets(u).acquiredTimes,
                      getUserTickets(u).acquiredTimes')
          /\ getUserAttempts(u)' = AttemptsReturnedTo(u)'
          /\ getUserTickets(u).ticketIds' = TicketsReturnedTo(u)']_vars

\* one user has a refused attempt followed by tickets of two events
C21_Witness ==
    \E u \in Users :
        /\ Len(getUserAttempts(u)) = 3
        /\ getUserAttempts(u)[1].result = "NotStarted"
        /\ Len(getUserTickets(u).ticketIds) = 2
        /\ getUserTickets(u).eventIds[1] # getUserTickets(u).eventIds[2]

\* the number of notifications called name among those a call emitted
Emitted(call, name) ==
    Cardinality({i \in 1..Len(call.emitted) : call.emitted[i].name = name})

\* C22: decision event stream. Every grabTicket call that executed on an
\* existing event emitted exactly one AttemptRecorded, carrying the event,
\* the caller and the outcome the call returned; every successful createEvent
\* emitted exactly one EventCreated for the id it returned; a reverted call
\* emitted nothing.
C22_DecisionEvents ==
    /\ (lastCall.fn = "grabTicket" /\ ~lastCall.reverted)
          => /\ Emitted(lastCall, "AttemptRecorded") = 1
             /\ Emitted(lastCall, "EventCreated") = 0
             /\ \A i \in 1..Len(lastCall.emitted) :
                   lastCall.emitted[i].name = "AttemptRecorded"
                      => /\ lastCall.emitted[i].result = lastCall.result
                         /\ lastCall.emitted[i].eventId = lastCall.eventId
                         /\ lastCall.emitted[i].participant = lastCall.sender
    /\ (lastCall.fn = "createEvent" /\ ~lastCall.reverted)
          => /\ Emitted(lastCall, "EventCreated") = 1
             /\ Emitted(lastCall, "AttemptRecorded") = 0
             /\ \A i \in 1..Len(lastCall.emitted) :
                   lastCall.emitted[i].name = "EventCreated"
                      => lastCall.emitted[i].eventId = lastCall.eventId
    /\ lastCall.reverted => lastCall.emitted = <<>>

\* a refused claim emitted its one notification, naming SoldOut
C22_Witness ==
    /\ lastCall.fn = "grabTicket"
    /\ ~lastCall.reverted
    /\ lastCall.result = "SoldOut"
    /\ Len(lastCall.emitted) = 1
    /\ lastCall.emitted[1].name = "AttemptRecorded"
    /\ lastCall.emitted[1].result = "SoldOut"

\* the calls, by position in history, that emitted EventSoldOut for event e
SoldOutEmissions(e) ==
    {i \in 1..Len(history) :
        \E k \in 1..Len(history[i].emitted) :
            /\ history[i].emitted[k].name = "EventSoldOut"
            /\ history[i].emitted[k].eventId = e}

\* the tickets of event e issued by the first i calls of history
IssuedUpTo(e, i) ==
    Cardinality({j \in 1..i : history[j].success /\ history[j].eventId = e})

\* C23: EventSoldOut(e) is emitted exactly by the successful claim that takes
\* the last ticket of e (remainingTickets from 1 to 0): at most once per
\* event over the run, never by a failed claim, never by a claim that leaves
\* a ticket, and never for another event than the one claimed.
C23_SoldOutOnce ==
    \A e \in EventIds :
        /\ Cardinality(SoldOutEmissions(e)) <= 1
        /\ \A i \in 1..Len(history) :
              i \in SoldOutEmissions(e)
                 <=> /\ history[i].success
                     /\ history[i].eventId = e
                     /\ IssuedUpTo(e, i) = events[e].totalTickets
        /\ (events[e].exists /\ events[e].remainingTickets = 0)
              => SoldOutEmissions(e) # {}

\* the second ticket of a two-ticket event was the last: its claim, not the
\* first, emitted EventSoldOut, and a later claim was refused as SoldOut
C23_Witness ==
    \E e \in Created :
        /\ events[e].totalTickets = 2
        /\ SoldOutEmissions(e) = {2}
        /\ Len(history) = 3
        /\ history[3].result = "SoldOut"
        /\ history[3].eventId = e

\* C25: claims for different events are independent. A claim on event a and
\* a claim on a different event b executed in the same block give, in either
\* order, the same outcome for each claim, the same remaining tickets of
\* every event and the same holder flags.
C25_DifferentEventsCommute ==
    probe.phase = "done"
       => /\ probe.ab.first = probe.ba.first
          /\ probe.ab.second = probe.ba.second
          /\ probe.ab.remainingTickets = probe.ba.remainingTickets
          /\ probe.ab.holders = probe.ba.holders

\* the same user claimed on both events, in both orders: the claim on a
\* succeeded and the claim on b, sold out before, was refused
C25_Witness ==
    /\ probe.phase = "done"
    /\ probe.u1 = probe.u2
    /\ probe.ba.first.result = "Success"
    /\ probe.ba.second.result = "SoldOut"

\* how often x occurs in the sequence q
Occurrences(q, x) == Cardinality({i \in 1..Len(q) : q[i] = x})

\* C26: commit atomicity as readers see it. In every state between
\* transactions, for each event e and user u: hasTicketForEvent[e][u] iff
\* userTicketForEvent[e][u] is the non-zero id of a ticket record of event e
\* owned by u, iff e occurs exactly once in userEvents[u] (and otherwise not
\* at all), iff u's attempts have a Success entry for e; and eventTickets[e]
\* has totalTickets - remainingTickets entries.
C26_CommitAtomicity ==
    \A e \in EventIds :
        /\ Len(eventTickets[e]) =
              events[e].totalTickets - events[e].remainingTickets
        /\ \A u \in Users :
              LET t == userTicketForEvent[e][u]
                  has == hasTicketForEvent[e][u]
              IN  /\ has <=> /\ t # 0
                             /\ tickets[t].id = t
                             /\ tickets[t].eventId = e
                             /\ tickets[t].owner = u
                  /\ has <=> Occurrences(userEvents[u], e) = 1
                  /\ ~has => Occurrences(userEvents[u], e) = 0
                  /\ has <=> \E i \in 1..Len(userAttempts[u]) :
                                /\ userAttempts[u][i].eventId = e
                                /\ userAttempts[u][i].result = "Success"

\* one user holds a ticket of each event, another was refused on event 2,
\* which has nothing left
C26_Witness ==
    \E u \in Users, v \in Users :
        /\ u # v
        /\ hasTicketForEvent[1][u]
        /\ hasTicketForEvent[2][u]
        /\ userTicketForEvent[2][u] = 2
        /\ ~hasTicketForEvent[2][v]
        /\ Len(userAttempts[v]) = 1
        /\ userAttempts[v][1].result = "SoldOut"

\* C27: the event listing has one row per created event, in creation order,
\* whose fields are those getEvent returns for that id in the same state,
\* and the status the client computes for a row is the one getEventStatus
\* gives for the same stored fields at the same time value, whatever that
\* time value is.
C27_ListingMatchesGetEvent ==
    \A now \in 0..(MaxTime + 1) :
        LET rows == useTicketEngineEvents(now)
        IN  /\ Len(rows) = Cardinality(Created)
            /\ \A i \in 1..Len(rows) :
                  LET one == getEvent(now, events[i])
                  IN  /\ rows[i].id = i
                      /\ ~one.reverted
                      /\ rows[i].id = one.id
                      /\ rows[i].title = one.title
                      /\ rows[i].startTime = one.startTime
                      /\ rows[i].totalTickets = one.totalTickets
                      /\ rows[i].remainingTickets = one.remainingTickets
                      /\ rows[i].organizer = one.organizer
                      /\ rows[i].status = EventStatusIndex[one.status]
                      /\ rows[i].status =
                            EventStatusIndex[getEventStatus(now, events[i])]

\* two events are listed: at the block's time the first is sold out and the
\* second in progress, and a client whose clock is behind the start time
\* shows the first as not started
C27_Witness ==
    /\ Len(useTicketEngineEvents(blockTimestamp)) = 2
    /\ useTicketEngineEvents(blockTimestamp)[1].status = EventStatusTS.SoldOut
    /\ useTicketEngineEvents(blockTimestamp)[2].status = EventStatusTS.InProgress
    /\ useTicketEngineEvents(0)[1].status = EventStatusTS.NotStarted
    /\ useTicketEngineEvents(0)[1].remainingTickets = 0

\* C28: the event page distinguishes the four claim outcomes. After a
\* grabTicket transaction is confirmed, what the page reports (grabResult,
\* the success flag of the saved record, the status given to endGrabbing) is
\* success only if the contract's outcome was Success, and otherwise names
\* the actual reason (NotStarted, AlreadyOwnsTicket or SoldOut).
C28_PageDistinguishesOutcomes ==
    (lastCall.fn = "grabTicket" /\ ~lastCall.reverted)
       => LET page == handleGrabTicket(lastCall)
          IN  /\ page.grabResult.success => lastCall.result = "Success"
              /\ page.txRecord.success => lastCall.result = "Success"
              /\ page.endGrabbing = "success" => lastCall.result = "Success"
              /\ lastCall.result # "Success"
                    => page.grabResult.result = lastCall.result

Listed(list, w) == \E i \in 1..Len(list) : list[i].wallet_address = w

\* C29: realtime presence, add. Whenever a user starts grabbing (a row with
\* status 'grabbing' is committed, by insert or by upsert of an existing
\* row) and the notification of that change is delivered to a subscribed
\* client, that client's grabbingList contains the wallet.
C29_PresenceAdd ==
    [][\A c \in Clients :
          (/\ presence.channel[c] # <<>>
           /\ presence'.channel[c] = Tail(presence.channel[c])
           /\ Head(presence.channel[c]).new.status = "grabbing")
             => Listed(activeGrabbing(c)',
                       Head(presence.channel[c]).new.wallet_address)]_vars

\* C30: realtime presence, remove. Once a participant's status is 'success'
\* or 'failed' and a client that was sent every change notification has no
\* fetch answer and no notification pending, its grabbingList does not
\* contain the wallet, whatever the order in which the answer and the
\* notifications arrived; and no list ever holds two entries for one wallet.
C30_PresenceRemove ==
    \A c \in Clients :
        /\ \A w \in Wallets :
              (/\ presence.table[w].status \in {"success", "failed"}
               /\ presence.subscribed[c]
               /\ ~presence.missed[c]
               /\ presence.fetch[c].phase = "done"
               /\ presence.channel[c] = <<>>)
                 => ~Listed(activeGrabbing(c), w)
        /\ \A i \in 1..Len(presence.grabbingList[c]) :
              \A j \in 1..Len(presence.grabbingList[c]) :
                 presence.grabbingList[c][i].wallet_address
                    = presence.grabbingList[c][j].wallet_address => i = j

\* What a mount would load from localStorage now.
StoredHistory ==
    IF txHistory.localStorage.present
    THEN JSON_parse(txHistory.localStorage.text)
    ELSE <<>>

\* C31: transaction history deduplication. Starting from a loaded history
\* without duplicate hashes, once the calls of addTransaction and
\* clearHistory made so far have been applied, the list holds at most one
\* record per transaction hash and the copy in localStorage equals the list
\* in memory.
C31_HistoryDeduplicated ==
    (txHistory.isLoaded /\ txHistory.pending = <<>>) =>
        /\ NoDuplicateHash(txHistory.transactions)
        /\ StoredHistory = txHistory.transactions

\* C32: no ticket is issued before its event starts. Every issued ticket was
\* acquired at or after the start time of its event, and while the block
\* time is before an event's start time all its tickets remain.
C32_NoTicketBeforeStart ==
    /\ \A t \in Issued :
          tickets[t].acquiredAt >= events[tickets[t].eventId].startTime
    /\ \A e \in Created :
          blockTimestamp < events[e].startTime =>
             events[e].remainingTickets = events[e].totalTickets

\* A claim made before the start was refused and a later one was served.
C32_Witness ==
    \E i \in 1..Len(history) : \E t \in Issued :
        /\ history[i].result = "NotStarted"
        /\ history[i].eventId = tickets[t].eventId
        /\ tickets[t].acquiredAt = events[tickets[t].eventId].startTime

\* C33: the derived status and the claim decision agree. For the same time
\* and event, if getEventStatus is InProgress a claim by a claimant holding
\* no ticket for the event returns Success; if it is NotStarted every claim
\* returns NotStarted; if it is SoldOut no claim returns Success.
C33_StatusAgreesWithDecision ==
    (probe.status \notin {"", "unused"} /\ probe.result \notin {"", "unused"})
       => /\ (probe.status = "InProgress" /\ ~probe.hasTicket)
                => probe.result = "Success"
          /\ probe.status = "NotStarted" => probe.result = "NotStarted"
          /\ probe.status = "SoldOut" => probe.result # "Success"

\* at the start time, with a ticket left, a claimant without a ticket is
\* served and the status is InProgress
C33_Witness ==
    /\ probe.timestamp = probe.startTime
    /\ probe.remainingTickets > 0
    /\ ~probe.hasTicket
    /\ probe.status = "InProgress"
    /\ probe.result = "Success"

\* The status of stored event e at the current block time, and its place in
\* the order NotStarted, InProgress, SoldOut.
StatusOf(e) == getEventStatus(blockTimestamp, events[e])

StatusRank == [NotStarted |-> 0, InProgress |-> 1, SoldOut |-> 2]

\* C34: under a non-decreasing clock the status of an event never regresses.
\* A new event is NotStarted; in every step the status stays or moves
\* forward in the order NotStarted, InProgress, SoldOut, and never from
\* NotStarted to SoldOut; once an event is SoldOut it stays SoldOut and no
\* further ticket is issued for it.
C34_StatusNeverRegresses ==
    [][\A e \in EventIds :
          /\ (~events[e].exists /\ events'[e].exists)
                => StatusOf(e)' = "NotStarted"
          /\ events[e].exists
                => /\ events'[e].exists
                   /\ StatusRank[StatusOf(e)'] >= StatusRank[StatusOf(e)]
                   /\ ~(StatusOf(e) = "NotStarted" /\ StatusOf(e)' = "SoldOut")
                   /\ StatusOf(e) = "SoldOut"
                         => /\ StatusOf(e)' = "SoldOut"
                            /\ eventTickets'[e] = eventTickets[e]
                            /\ events'[e].remainingTickets = 0]_vars

\* an event went through InProgress to SoldOut and a later claim on it was
\* refused
C34_Witness ==
    \E e \in Created :
        /\ StatusOf(e) = "SoldOut"
        /\ eventTickets[e] # <<>>
        /\ \E i \in 1..Len(history) :
              history[i].eventId = e /\ history[i].result = "SoldOut"

\* Tickets taken from event e, and the Success entries of user u's log.
TakenFrom == [e \in EventIds |-> events[e].totalTickets - events[e].remainingTickets]

SuccessEntries ==
    [u \in Users |->
        Cardinality({i \in 1..Len(userAttempts[u]) :
                        userAttempts[u][i].result = "Success"})]

\* C35: global conservation of tickets. In every reachable state
\* nextTicketId - 1 equals the sum over all events of totalTickets -
\* remainingTickets, the number of stored ticket records, and the number of
\* Success entries over all attempt logs.
C35_TicketConservation ==
    /\ nextTicketId - 1 = Sum(TakenFrom, EventIds)
    /\ nextTicketId - 1 = Cardinality(Issued)
    /\ nextTicketId - 1 = Sum(SuccessEntries, Users)

\* tickets of two events were issued, and a claim was refused
C35_Witness ==
    /\ \E e1 \in Created : \E e2 \in Created :
          e1 # e2 /\ TakenFrom[e1] > 0 /\ TakenFrom[e2] > 0
    /\ \E i \in 1..Len(history) : ~history[i].success

\* The tokens an address holds in the ERC721 layer.
TokensOf(u) == {t \in Issued : owners[t] = u}

\* C36: the ledger and the NFT layer agree on ownership. For every issued
\* ticket the ERC721 owner of its token is the owner in its record, so
\* getUserTickets(u) lists exactly the tickets whose token u holds, and no
\* address holds two tokens of the same event.
C36_LedgerMatchesTokens ==
    /\ \A t \in Issued : owners[t] = tickets[t].owner
    /\ \A u \in Users :
          {getUserTickets(u).ticketIds[i] :
              i \in 1..Len(getUserTickets(u).ticketIds)} = TokensOf(u)
    /\ \A u \in Users : \A t1 \in TokensOf(u) : \A t2 \in TokensOf(u) :
          tickets[t1].eventId = tickets[t2].eventId => t1 = t2

\* The positions of log q that hold an entry for event e with the result.
EntriesOf(q, e, result) ==
    {i \in 1..Len(q) : q[i].eventId = e /\ q[i].result = result}

\* Success entries for event e over all logs.
SuccessesFor(e) ==
    LET count == [u \in Users |->
                     Cardinality(EntriesOf(userAttempts[u], e, "Success"))]
    IN  Sum(count, Users)

\* C37: ordering inside the attempt ledger. Whenever an entry is written to
\* a claimant's log: a Success entry for event e is the first Success for e
\* in that log; an AlreadyOwnsTicket entry for e has a Success entry for e
\* before it in the same log; and a SoldOut entry for e is written in a
\* state where exactly totalTickets Success entries for e exist over all
\* logs. Nothing already written is changed or removed.
C37_AttemptLedgerOrder ==
    [][\A u \in Users :
          userAttempts'[u] # userAttempts[u]
             => /\ Len(userAttempts'[u]) = Len(userAttempts[u]) + 1
                /\ SubSeq(userAttempts'[u], 1, Len(userAttempts[u]))
                      = userAttempts[u]
                /\ LET written == userAttempts'[u][Len(userAttempts'[u])]
                       e == written.eventId
                   IN  /\ written.result = "Success"
                             => EntriesOf(userAttempts[u], e, "Success") = {}
                       /\ written.result = "AlreadyOwnsTicket"
                             => EntriesOf(userAttempts[u], e, "Success") # {}
                       /\ written.result = "SoldOut"
                             => SuccessesFor(e) = events[e].totalTickets]_vars

\* one log holds a Success and then an AlreadyOwnsTicket for an event, and
\* another log holds a SoldOut for it
C37_Witness ==
    \E e \in Created : \E u \in Users : \E v \in Users :
        /\ \E i \in EntriesOf(userAttempts[u], e, "Success") :
              \E j \in EntriesOf(userAttempts[u], e, "AlreadyOwnsTicket") : i < j
        /\ EntriesOf(userAttempts[v], e, "SoldOut") # {}

\* C38: the create page shows the right event. After a createEvent
\* transaction submitted from the create page is confirmed, the event id the
\* page displays and links to, the nextEventId value it read before the
\* submission, is the id the contract assigned to that event.
C38_PageShowsCreatedEvent ==
    (createPage.phase = "confirmed" /\ createPage.submitted # Undefined)
       => createPage.createdEventId = createPage.assigned

\* C39: tokenURI(tokenId) succeeds exactly for the issued ticket ids, 1 <=
\* tokenId < nextTicketId, and aborts with 'Token does not exist' for id 0
\* and for every id not yet issued; for an issued id the metadata names the
\* ticket id and the id and title of the event the ticket was claimed for.
C39_TokenURI ==
    \A tokenId \in TicketIds :
        IF 1 <= tokenId /\ tokenId < nextTicketId
        THEN /\ ~tokenURI(tokenId).reverted
             /\ \E i \in 1..Len(history) :
                   /\ history[i].success
                   /\ history[i].ticketId = tokenId
                   /\ tokenURI(tokenId).eventId = history[i].eventId
                   /\ tokenURI(tokenId).ticketId = tokenId
                   /\ tokenURI(tokenId).name
                         = <<events[history[i].eventId].title, tokenId>>
                   /\ tokenURI(tokenId).description
                         = events[history[i].eventId].title
        ELSE /\ tokenURI(tokenId).reverted
             /\ tokenURI(tokenId).reason = "Token does not exist"

\* the second ticket of an event has its metadata, and the next id has none
C39_Witness ==
    /\ \E t \in Issued :
          /\ tickets[t].eventId # t
          /\ tokenURI(t).eventId = tickets[t].eventId
          /\ tokenURI(t).name[1] = "Gala"
    /\ tokenURI(nextTicketId).reverted
    /\ tokenURI(0).reverted

====
